---- MODULE Spec2Model ----
(***************************************************************************)
(* Model of the link sharing HTTP handler (package sharing, handler.go).   *)
(*                                                                         *)
(* Go strings are sequences of one-character strings, so that splitting,   *)
(* trimming, prefix/suffix tests and concatenation are computed the way    *)
(* the strings package computes them.  A nil error is the empty string     *)
(* NoErr; a nil *uplink.Access is the empty tuple NilAccess and a parsed   *)
(* access grant is the one-element tuple holding its serialized form.      *)
(***************************************************************************)
EXTENDS Integers, Sequences, FiniteSets, TLC

VARIABLES
    urlBase,    \* handler.urlBase: [Host, Path]
    now,        \* wall clock read by the TXT record cache
    cache,      \* handler.txtRecords: the entries [host, access, root, timestamp]
    req,        \* per connection: the request being served: [Method, Host, Path, Query]
    resp,       \* per connection: what was written to the http.ResponseWriter for it
    calls,      \* per connection: collaborator calls made while serving it, in order
    at,         \* per connection: the call its goroutine waits on: "resolve" | "dns" |
                \* "open" | "stat" | "stat2" | "ips" | "list" | "content", or "idle" | "done"
    local,      \* per connection: the handler's variables access, root, bucket, key, rawRequest
    pc,         \* position of a single function application: "call" | "done" | "idle"
    args,       \* inputs of that application
    ret         \* its results

vars == <<urlBase, now, cache, req, resp, calls, at, local, pc, args, ret>>

serverVars == <<urlBase, now, cache, req, resp, calls, at, local>>
pureVars == <<pc, args, ret>>

(***************************************************************************)
(* strings package                                                         *)
(***************************************************************************)
Slash == <<"/">>

HasPrefix(s, p) == Len(s) >= Len(p) /\ SubSeq(s, 1, Len(p)) = p

HasSuffix(s, p) == Len(s) >= Len(p) /\ SubSeq(s, Len(s) - Len(p) + 1, Len(s)) = p

TrimPrefix(s, p) == IF HasPrefix(s, p) THEN SubSeq(s, Len(p) + 1, Len(s)) ELSE s

RECURSIVE IndexFrom(_, _, _)
IndexFrom(s, c, i) ==
    IF i > Len(s) THEN 0 ELSE IF s[i] = c THEN i ELSE IndexFrom(s, c, i + 1)

RECURSIVE LastIndexFrom(_, _, _)
LastIndexFrom(s, c, i) ==
    IF i < 1 THEN 0 ELSE IF s[i] = c THEN i ELSE LastIndexFrom(s, c, i - 1)

\* 1-based position of the first c in s, 0 when there is none
IndexByte(s, c) == IndexFrom(s, c, 1)

\* 1-based position of the last c in s, 0 when there is none
LastIndexByte(s, c) == LastIndexFrom(s, c, Len(s))

\* s[i:] with a 0-based i
From(s, i) == SubSeq(s, i + 1, Len(s))

\* strings.SplitN(s, "/", n) for n > 0
RECURSIVE SplitN(_, _)
SplitN(s, n) ==
    LET i == IndexByte(s, "/") IN
    IF n = 1 \/ i = 0
    THEN <<s>>
    ELSE <<SubSeq(s, 1, i - 1)>> \o SplitN(SubSeq(s, i + 1, Len(s)), n - 1)

\* strings.Split(s, "/")
RECURSIVE Split(_)
Split(s) ==
    LET i == IndexByte(s, "/") IN
    IF i = 0
    THEN <<s>>
    ELSE <<SubSeq(s, 1, i - 1)>> \o Split(SubSeq(s, i + 1, Len(s)))

NoErr == ""

(***************************************************************************)
(* net.SplitHostPort, as called by compareHosts and handleHostingService   *)
(***************************************************************************)
missingPort == "missing port in address"
tooManyColons == "too many colons in address"

addrErr(why) == [host |-> <<>>, port |-> <<>>, err |-> why]

SplitHostPort(hostport) ==
    LET i   == LastIndexByte(hostport, ":")
        end == IndexByte(hostport, "]")
        bracketed == hostport[1] = "["
        host == IF bracketed THEN SubSeq(hostport, 2, end - 1)
                             ELSE SubSeq(hostport, 1, i - 1)
        j == IF bracketed THEN 1 ELSE 0
        k == IF bracketed THEN end ELSE 0
    IN
    IF i = 0 THEN addrErr(missingPort)
    ELSE IF bracketed /\ end = 0 THEN addrErr("missing ']' in address")
    ELSE IF bracketed /\ end = Len(hostport) THEN addrErr(missingPort)
    ELSE IF bracketed /\ end + 1 # i THEN
        (IF hostport[end + 1] = ":" THEN addrErr(tooManyColons)
                                    ELSE addrErr(missingPort))
    ELSE IF ~bracketed /\ IndexByte(host, ":") # 0 THEN addrErr(tooManyColons)
    ELSE IF IndexByte(From(hostport, j), "[") # 0 THEN addrErr("unexpected '[' in address")
    ELSE IF IndexByte(From(hostport, k), "]") # 0 THEN addrErr("unexpected ']' in address")
    ELSE [host |-> host, port |-> From(hostport, i), err |-> NoErr]

(***************************************************************************)
(* compareHosts                                                            *)
(***************************************************************************)
compareHosts(url1, url2) ==
    LET r1 == SplitHostPort(url1)
        r2 == SplitHostPort(url2)
        host1 == IF r1.err = missingPort THEN url1 ELSE r1.host
        host2 == IF r2.err = missingPort THEN url2 ELSE r2.host
    IN
    IF r1.err # NoErr /\ r1.err # missingPort THEN [equal |-> FALSE, err |-> r1.err]
    ELSE IF r2.err # NoErr /\ r2.err # missingPort THEN [equal |-> FALSE, err |-> r2.err]
    ELSE IF host1 # host2 THEN [equal |-> FALSE, err |-> NoErr]
    ELSE [equal |-> TRUE, err |-> NoErr]

(***************************************************************************)
(* determineBucketAndObjectKey                                             *)
(***************************************************************************)
determineBucketAndObjectKey_NoEmptyCheck(root, urlPath) ==
    LET parts == SplitN(root, 2)
        prefix0 == IF Len(parts) > 1 THEN parts[2] ELSE <<>>
        prefix == IF ~HasSuffix(prefix0, Slash) THEN prefix0 \o Slash ELSE prefix0
    IN [bucket |-> parts[1], key |-> prefix \o TrimPrefix(urlPath, Slash)]

determineBucketAndObjectKey(root, urlPath) ==
    LET parts == SplitN(root, 2)
        prefix0 == IF Len(parts) > 1 THEN parts[2] ELSE <<>>
        prefix == IF prefix0 # <<>> /\ ~HasSuffix(prefix0, Slash)
                  THEN prefix0 \o Slash ELSE prefix0
    IN [bucket |-> parts[1], key |-> prefix \o TrimPrefix(urlPath, Slash)]

(***************************************************************************)
(* Credential tokens.  base58.CheckDecode and uplink.ParseAccess are       *)
(* deterministic library functions of the token text; they are given here  *)
(* as their values on the tokens the model uses.  TokJunk, TokKeyID and    *)
(* TokV2 are the base-58 check encodings of an empty payload under         *)
(* version bytes 0, 1 and 2, TokV2a that of a one-byte payload under       *)
(* version 2; TokGrant and TokGrant2 (version 0) stand for serialized      *)
(* access grants that uplink.ParseAccess accepts; TokBad has a checksum    *)
(* that does not match.                                                    *)
(* "raw" decodes to fewer than the five bytes a version and checksum need. *)
(***************************************************************************)
TokGrant  == <<"1","C","3","t","9","N","i","b">>
TokGrant2 == <<"1","C","5","p","i","8","A","Q">>
TokJunk   == <<"1","W","h","4","b","h">>
TokKeyID  == <<"B","X","v","D","b","H">>
TokV2     == <<"E","p","i","3","K","P">>
TokV2a    == <<"2","B","k","J","b","h","j","W">>
TokBad    == <<"B","X","v","D","b","h">>
StrRaw    == <<"r","a","w">>

\* base58.CheckDecode(access): [err, version]
CheckDecode(access) ==
    IF access \in {TokGrant, TokGrant2, TokJunk} THEN [err |-> NoErr, version |-> 0]
    ELSE IF access = TokKeyID THEN [err |-> NoErr, version |-> 1]
    ELSE IF access \in {TokV2, TokV2a} THEN [err |-> NoErr, version |-> 2]
    ELSE [err |-> "checksum error", version |-> 0]

NilAccess == <<>>

\* uplink.ParseAccess(access): [access, err]
ParseAccess(access) ==
    IF access \in {TokGrant, TokGrant2}
    THEN [access |-> <<access>>, err |-> NoErr]
    ELSE [access |-> NilAccess, err |-> "uplink: invalid access grant format"]

\* One collaborator call, as logged in calls: the operation, its arguments and
\* what it returned
Call(op, a, b, out) == [op |-> op, a |-> a, b |-> b, out |-> out]

\* cfg.Resolve(access): what the auth service answers, [err, Public, AccessGrant]
Resolve(cfg, access) == cfg

(***************************************************************************)
(* parseAccess                                                             *)
(***************************************************************************)
versionAccessKeyID == 1

parseAccess_NoPublicCheck(access, cfg) ==
    LET dec == CheckDecode(access)
        authResp == Resolve(cfg, access)
        final == ParseAccess(IF dec.version = versionAccessKeyID
                             THEN authResp.AccessGrant ELSE access)
        cDec == <<Call("CheckDecode", access, <<>>, dec.err)>>
        cRes == <<Call("Resolve", access, <<>>, authResp.err)>>
    IN
    IF dec.err # NoErr THEN
        [access |-> NilAccess, err |-> "invalid access", calls |-> cDec]
    ELSE IF dec.version = versionAccessKeyID THEN
        IF authResp.err # NoErr THEN
            [access |-> NilAccess, err |-> authResp.err, calls |-> cDec \o cRes]
        ELSE
            [access |-> final.access, err |-> final.err,
             calls |-> cDec \o cRes \o <<Call("ParseAccess", authResp.AccessGrant, <<>>, final.err)>>]
    ELSE IF dec.version = 0 THEN
        [access |-> final.access, err |-> final.err,
         calls |-> cDec \o <<Call("ParseAccess", access, <<>>, final.err)>>]
    ELSE
        [access |-> NilAccess, err |-> "invalid access version", calls |-> cDec]

parseAccess(access, cfg) ==
    LET dec == CheckDecode(access)
        authResp == Resolve(cfg, access)
        final == ParseAccess(IF dec.version = versionAccessKeyID
                             THEN authResp.AccessGrant ELSE access)
        cDec == <<Call("CheckDecode", access, <<>>, dec.err)>>
        cRes == <<Call("Resolve", access, <<>>, authResp.err)>>
    IN
    IF dec.err # NoErr THEN
        [access |-> NilAccess, err |-> "invalid access", calls |-> cDec]
    ELSE IF dec.version = versionAccessKeyID THEN
        IF authResp.err # NoErr THEN
            [access |-> NilAccess, err |-> authResp.err, calls |-> cDec \o cRes]
        ELSE IF ~authResp.Public THEN
            [access |-> NilAccess, err |-> "non-public access key id", calls |-> cDec \o cRes]
        ELSE
            [access |-> final.access, err |-> final.err,
             calls |-> cDec \o cRes \o <<Call("ParseAccess", authResp.AccessGrant, <<>>, final.err)>>]
    ELSE IF dec.version = 0 THEN
        [access |-> final.access, err |-> final.err,
         calls |-> cDec \o <<Call("ParseAccess", access, <<>>, final.err)>>]
    ELSE
        [access |-> NilAccess, err |-> "invalid access version", calls |-> cDec]

(***************************************************************************)
(* parseRequestPath                                                        *)
(***************************************************************************)
parseFail(rawRequest, err, cs) ==
    [rawRequest |-> rawRequest, access |-> NilAccess, serializedAccess |-> <<>>,
     bucket |-> <<>>, key |-> <<>>, err |-> err, calls |-> cs]

parseRequestPath_NoConcat(p, cfg) ==
    LET split == SplitN(TrimPrefix(p, Slash), 4)
        four == Len(split) = 4
        rawRequest == four /\ split[1] = StrRaw
        segments == IF ~four THEN split
                    ELSE IF rawRequest THEN SubSeq(split, 2, 4)
                    ELSE <<split[1], split[2], split[3]>>
        serializedAccess == segments[1]
        bucket == segments[2]
        key == IF Len(segments) = 3 THEN segments[3] ELSE <<>>
        pa == parseAccess(serializedAccess, cfg)
    IN
    IF Len(segments) = 1 THEN
        IF segments[1] = <<>> THEN parseFail(rawRequest, "missing access", <<>>)
        ELSE parseFail(rawRequest, "missing bucket", <<>>)
    ELSE IF pa.err # NoErr THEN parseFail(rawRequest, pa.err, pa.calls)
    ELSE [rawRequest |-> rawRequest, access |-> pa.access,
          serializedAccess |-> serializedAccess, bucket |-> bucket, key |-> key,
          err |-> NoErr, calls |-> pa.calls]

parseRequestPath(p, cfg) ==
    LET split == SplitN(TrimPrefix(p, Slash), 4)
        four == Len(split) = 4
        rawRequest == four /\ split[1] = StrRaw
        segments == IF ~four THEN split
                    ELSE IF rawRequest THEN SubSeq(split, 2, 4)
                    ELSE <<split[1], split[2], split[3] \o Slash \o split[4]>>
        serializedAccess == segments[1]
        bucket == segments[2]
        key == IF Len(segments) = 3 THEN segments[3] ELSE <<>>
        pa == parseAccess(serializedAccess, cfg)
    IN
    IF Len(segments) = 1 THEN
        IF segments[1] = <<>> THEN parseFail(rawRequest, "missing access", <<>>)
        ELSE parseFail(rawRequest, "missing bucket", <<>>)
    ELSE IF pa.err # NoErr THEN parseFail(rawRequest, pa.err, pa.calls)
    ELSE [rawRequest |-> rawRequest, access |-> pa.access,
          serializedAccess |-> serializedAccess, bucket |-> bucket, key |-> key,
          err |-> NoErr, calls |-> pa.calls]

(***************************************************************************)
(* Single applications of the pure functions: the inputs are drawn by the  *)
(* initial state, the one step applies the function.                       *)
(***************************************************************************)
NoRet == [none |-> TRUE]

DefaultBase == [Scheme |-> <<"h","t","t","p","s">>, Host |-> <<"g","w",".","t","e","s","t">>, Path |-> <<>>]
NoReq == [Method |-> "", Host |-> <<>>, Path |-> <<>>, Query |-> {}]
NoResp == [status |-> 0, body |-> "", location |-> <<>>, attachment |-> <<>>, err |-> NoErr]
EmptyCache == {}
NoLocal == [access |-> <<>>, root |-> <<>>, bucket |-> <<>>, key |-> <<>>, rawRequest |-> FALSE]

\* net/http serves every connection on a goroutine of its own
Conns == {"c1", "c2"}

Quiet ==
    /\ urlBase = DefaultBase
    /\ now = 0
    /\ cache = EmptyCache
    /\ req = [g \in Conns |-> NoReq]
    /\ resp = [g \in Conns |-> NoResp]
    /\ calls = [g \in Conns |-> <<>>]
    /\ at = [g \in Conns |-> "idle"]
    /\ local = [g \in Conns |-> NoLocal]

\* ---- compareHosts -------------------------------------------------------
BareHosts ==
    {<<"w","e","b","s","i","t","e",".","t","e","s","t">>, <<"s","i","t","e",".","t","e","s","t">>, <<"1","9","2",".","1","6","8",".","0",".","1">>, <<"[",":",":","1","]">>, <<"[",":",":","2","]">>}
Ports == {<<"4","4","3">>, <<"8","8","0">>}
WithPort(h, p) == h \o <<":">> \o p
HostInputs ==
    BareHosts \cup {WithPort(h, p) : h \in BareHosts, p \in Ports}
        \cup {<<":",":","1">>, <<"a",".","b",":","1",":","2">>, <<"[",":",":","1">>, <<>>}

InitHosts ==
    /\ Quiet
    /\ pc = "call"
    /\ args \in [url1 : HostInputs, url2 : HostInputs]
    /\ ret = NoRet

ApplyCompareHosts ==
    /\ pc = "call"
    /\ pc' = "done"
    /\ ret' = compareHosts(args.url1, args.url2)
    /\ UNCHANGED <<args, serverVars>>

SpecHosts == InitHosts /\ [][ApplyCompareHosts]_vars

\* ---- determineBucketAndObjectKey ----------------------------------------
Roots ==
    {<<"b","u","c","k","e","t","/","p","r","e","f","i","x","/">>, <<"b","u","c","k","e","t">>, <<"b","u","c","k","e","t","/">>, <<"b","u","c","k","e","t","/","/">>, <<"b","u","c","k","e","t","/","/","p","r","e","f","i","x">>,
     <<"b","u","c","k","e","t","/","p","r","e","f","i","x","/","/">>, <<"b","u","c","k","e","t","/","p","r","e","f","i","x">>, <<"b","/","p","/","q">>, <<"/","p">>, <<>>}
UrlPaths ==
    {<<"/","i","m","a","g","e","s","/","p","i","c",".","j","p","g">>, <<"/","/","i","m","a","g","e","s","/","p","i","c",".","j","p","g">>, <<"/">>, <<>>, <<"/","d","i","r","/">>, <<"x">>, <<"/","/">>}

InitMapper ==
    /\ Quiet
    /\ pc = "call"
    /\ args \in [root : Roots, urlPath : UrlPaths]
    /\ ret = NoRet

ApplyDetermineBucketAndObjectKey ==
    /\ pc = "call"
    /\ pc' = "done"
    /\ ret' = determineBucketAndObjectKey(args.root, args.urlPath)
    /\ UNCHANGED <<args, serverVars>>

SpecMapper == InitMapper /\ [][ApplyDetermineBucketAndObjectKey]_vars

\* ---- parseAccess ----------------------------------------------------------
Tokens == {TokGrant, TokGrant2, TokJunk, TokKeyID, TokV2, TokV2a, TokBad, StrRaw, <<>>}

NoAuthService ==
    [err |-> "auth service: request failed", Public |-> FALSE, AccessGrant |-> <<>>]

\* What the auth service may answer to one Resolve call
AuthResponses ==
    {NoAuthService}
        \cup [err : {NoErr}, Public : BOOLEAN,
              AccessGrant : {TokGrant, TokGrant2, TokJunk, TokKeyID}]

InitAccess ==
    /\ Quiet
    /\ pc = "call"
    /\ args \in [access : Tokens, cfg : AuthResponses]
    /\ ret = NoRet

ApplyParseAccess ==
    /\ pc = "call"
    /\ pc' = "done"
    /\ ret' = parseAccess(args.access, args.cfg)
    /\ UNCHANGED <<args, serverVars>>

SpecAccess == InitAccess /\ [][ApplyParseAccess]_vars

\* ---- parseRequestPath -----------------------------------------------------
PathTokens == {TokGrant, TokKeyID, TokV2, TokBad, StrRaw}
PathBuckets == {<<"b","u","c","k","e","t">>, StrRaw}
PathKeys == {<<"k">>, <<"a","/","b",".","j","p","g">>, <<"a","/","b","/","c">>, <<"a","/","/","b">>, <<"d","/">>, <<"/","k">>, StrRaw}

PlainPath(A, B, K) == Slash \o A \o Slash \o B \o Slash \o K
RawPath(A, B, K) == Slash \o StrRaw \o PlainPath(A, B, K)
NoKeyPath(A, B) == Slash \o A \o Slash \o B
RawNoKeyPath(A, B) == Slash \o StrRaw \o NoKeyPath(A, B)

ParsePaths ==
    {PlainPath(A, B, K) : A \in PathTokens, B \in PathBuckets, K \in PathKeys}
        \cup {RawPath(A, B, K) : A \in PathTokens, B \in PathBuckets, K \in PathKeys}
        \cup {NoKeyPath(A, B) : A \in PathTokens, B \in PathBuckets \cup {<<>>}}
        \cup {RawNoKeyPath(A, B) : A \in PathTokens, B \in PathBuckets}
        \cup {NoKeyPath(A, B) \o Slash : A \in PathTokens, B \in PathBuckets}
        \cup {RawNoKeyPath(A, B) \o Slash : A \in PathTokens, B \in PathBuckets}
        \cup {Slash \o A : A \in PathTokens}
        \cup {PlainPath(A, <<>>, <<"k">>) : A \in PathTokens}
        \cup {<<>>, Slash, TokGrant \o Slash \o <<"b","u","c","k","e","t">>}

ParseAuthResponses ==
    {NoAuthService,
     [err |-> NoErr, Public |-> TRUE, AccessGrant |-> TokGrant2],
     [err |-> NoErr, Public |-> FALSE, AccessGrant |-> TokGrant2]}

InitParse ==
    /\ Quiet
    /\ pc = "call"
    /\ args \in [p : ParsePaths, cfg : ParseAuthResponses]
    /\ ret = NoRet

ApplyParseRequestPath ==
    /\ pc = "call"
    /\ pc' = "done"
    /\ ret' = parseRequestPath(args.p, args.cfg)
    /\ UNCHANGED <<args, serverVars>>

SpecParse == InitParse /\ [][ApplyParseRequestPath]_vars

(***************************************************************************)
(* path.Clean, path.Join and url.URL.String, as used by makeLocation, and  *)
(* http.Error / http.Redirect.  The paths of the model hold letters,       *)
(* digits, '.' and '/', which URL escaping leaves as they are.             *)
(***************************************************************************)
Dot == <<".">>
DotDot == <<".", ".">>

RECURSIVE CleanSegs(_, _, _)
CleanSegs(segs, out, rooted) ==
    IF segs = <<>> THEN out
    ELSE LET seg == Head(segs) IN
        IF seg = <<>> \/ seg = Dot THEN CleanSegs(Tail(segs), out, rooted)
        ELSE IF seg = DotDot THEN
            IF out # <<>> /\ out[Len(out)] # DotDot
            THEN CleanSegs(Tail(segs), SubSeq(out, 1, Len(out) - 1), rooted)
            ELSE IF rooted THEN CleanSegs(Tail(segs), out, rooted)
            ELSE CleanSegs(Tail(segs), Append(out, seg), rooted)
        ELSE CleanSegs(Tail(segs), Append(out, seg), rooted)

RECURSIVE JoinSegs(_)
JoinSegs(segs) ==
    IF segs = <<>> THEN <<>>
    ELSE IF Len(segs) = 1 THEN segs[1]
    ELSE segs[1] \o Slash \o JoinSegs(Tail(segs))

\* path.Clean
Clean(p) ==
    IF p = <<>> THEN Dot
    ELSE LET rooted == p[1] = "/"
             body == JoinSegs(CleanSegs(Split(p), <<>>, rooted))
         IN IF rooted THEN Slash \o body
            ELSE IF body = <<>> THEN Dot ELSE body

\* path.Join(a, b)
PathJoin(a, b) ==
    IF a = <<>> /\ b = <<>> THEN <<>>
    ELSE IF a = <<>> THEN Clean(b)
    ELSE Clean(a \o Slash \o b)

\* (*url.URL).String for a URL with a scheme, a host and a path
URLString(u) == u.Scheme \o <<":", "/", "/">> \o u.Host \o u.Path

makeLocation(base, reqPath) ==
    URLString([base EXCEPT !.Path = PathJoin(base.Path, reqPath)])

Written(status, body) ==
    [status |-> status, body |-> body, location |-> <<>>, attachment |-> <<>>, err |-> NoErr]

\* http.Error(w, msg, code)
httpError(msg, code) == Written(code, msg)

\* http.Redirect(w, r, url, code): a URL without scheme and host is cleaned, its
\* trailing slash kept; the short HTML note is written for GET only
httpRedirect(r, url, code) ==
    LET relative == url[1] = "/" /\ ~(Len(url) >= 3 /\ url[2] = "/" /\ url[3] # "/")
        cleaned == Clean(url)
        target == IF ~relative THEN url
                  ELSE IF HasSuffix(url, Slash) /\ ~HasSuffix(cleaned, Slash)
                       THEN cleaned \o Slash ELSE cleaned
    IN [Written(code, IF r.Method = "GET" THEN "redirect note" ELSE "")
            EXCEPT !.location = target]

(***************************************************************************)
(* The storage network and the other collaborators.  The satellite holds   *)
(* the objects of Objects; every call may also fail for a reason of its    *)
(* own (ErrInternal).                                                      *)
(***************************************************************************)
ErrBucketNotFound == "uplink: bucket not found"
ErrObjectNotFound == "uplink: object not found"
ErrBucketNameInvalid == "uplink: bucket name invalid"
ErrInternal == "uplink: internal error"

Buckets == {<<"b","u","c","k","e","t">>}
Objects ==
    {<<<<"b","u","c","k","e","t">>, <<"k">>>>, <<<<"b","u","c","k","e","t">>, <<"d","/">>>>, <<<<"b","u","c","k","e","t">>, <<"x","/","/","k">>>>,
     <<<<"b","u","c","k","e","t">>, <<"p","/","i","n","d","e","x",".","h","t","m","l">>>>}

BucketAnswer(bucket) ==
    IF bucket = <<>> THEN ErrBucketNameInvalid
    ELSE IF bucket \notin Buckets THEN ErrBucketNotFound
    ELSE NoErr

\* what project.StatObject(ctx, bucket, key) may return
StatOutcomes(bucket, key) ==
    {IF BucketAnswer(bucket) # NoErr THEN BucketAnswer(bucket)
     ELSE IF <<bucket, key>> \in Objects THEN NoErr ELSE ErrObjectNotFound,
     ErrInternal}

\* what the iterator of project.ListObjects(ctx, bucket, ...) may end with
ListOutcomes(bucket) == {BucketAnswer(bucket), ErrInternal}

\* what uplink.OpenProject and object.GetObjectIPs may return
OpenOutcomes == {NoErr, ErrInternal}
IPsOutcomes == {NoErr, ErrInternal}

(***************************************************************************)
(* handleUplinkErr                                                         *)
(***************************************************************************)
handleUplinkErr(err) ==
    IF err = ErrBucketNotFound THEN Written(404, "404.html: Oops! Bucket not found.")
    ELSE IF err = ErrObjectNotFound THEN Written(404, "404.html: Oops! Object not found.")
    ELSE httpError("unable to handle request", 500)

\* The handler of connection g returns: what it wrote and returned, the calls
\* it made
Finish(g, rsp, cs) ==
    /\ resp' = [resp EXCEPT ![g] = rsp]
    /\ calls' = [calls EXCEPT ![g] = cs]
    /\ at' = [at EXCEPT ![g] = "done"]
    /\ local' = [local EXCEPT ![g] = NoLocal]
    /\ cache' = cache

\* The goroutine of connection g has made the call named by where and waits
\* for it to return: other goroutines and the clock go on meanwhile
Await(g, where, cs, c, loc) ==
    /\ at' = [at EXCEPT ![g] = where]
    /\ calls' = [calls EXCEPT ![g] = cs]
    /\ local' = [local EXCEPT ![g] = loc]
    /\ cache' = c
    /\ resp' = resp

Returning(rsp, err) == [rsp EXCEPT !.err = err]

(***************************************************************************)
(* servePrefix: lists bucket under realPrefix and renders the listing      *)
(***************************************************************************)
servePrefix(bucket, realPrefix, out) ==
    [call |-> Call("ListObjects", bucket, realPrefix, out),
     err |-> out,
     rsp |-> IF out = NoErr THEN Written(200, "prefix-listing.html") ELSE Written(0, "")]

(***************************************************************************)
(* handleTraditional                                                       *)
(***************************************************************************)
\* The calls parseRequestPath makes on path p up to cfg.Resolve, when it gets
\* that far: <<TRUE, calls before it>>, else <<FALSE>>
UpToResolve(p) ==
    LET probe == parseRequestPath(p, NoAuthService).calls
        asks == {i \in DOMAIN probe : probe[i].op = "Resolve"}
    IN IF asks = {} THEN <<FALSE>>
       ELSE <<TRUE, SubSeq(probe, 1, (CHOOSE i \in asks : TRUE) - 1)>>

LastSegment(key) == LET segments == Split(key) IN segments[Len(segments)]

\* A value is bound once with \E x \in {e} where it is used many times.
\* Every step runs the handler from the return of the call it waits on (or from
\* its entry) to the next call that waits on the network, or to its return.
handleTraditional(g, r, locationOnly) ==
    \E cs \in {calls[g]} :
    \E l \in {local[g]} :
    IF at[g] \in {"idle", "resolve"} THEN
        \* parseRequestPath
        \E upTo \in {UpToResolve(r.Path)} :
        IF at[g] = "idle" /\ upTo[1] THEN
            Await(g, "resolve", upTo[2], cache, NoLocal)
        ELSE
        \E cfg \in (IF upTo[1] THEN ParseAuthResponses ELSE {NoAuthService}) :
        \E pr \in {parseRequestPath(r.Path, cfg)} :
        IF pr.err # NoErr THEN
            \E err \in {"invalid request: " \o pr.err} :
            Finish(g, Returning(httpError(err, 400), err), pr.calls)
        ELSE
            Await(g, "open", pr.calls, cache,
                  [NoLocal EXCEPT !.access = pr.access, !.bucket = pr.bucket,
                                  !.key = pr.key, !.rawRequest = pr.rawRequest])
    ELSE IF at[g] = "open" THEN
        \E open \in OpenOutcomes :
        \E cOpen \in {Append(cs, Call("OpenProject", l.access[1], <<>>, open))} :
        IF open # NoErr THEN
            Finish(g, Returning(handleUplinkErr(open), open), cOpen)
        ELSE IF l.key = <<>> \/ HasSuffix(l.key, Slash) THEN
            IF ~HasSuffix(r.Path, Slash) THEN
                Finish(g, httpRedirect(r, r.Path \o Slash, 301), cOpen)
            ELSE
                Await(g, "list", cOpen, cache, l)
        ELSE
            Await(g, "stat", cOpen, cache, l)
    ELSE IF at[g] = "list" THEN
        \E lst \in ListOutcomes(l.bucket) :
        \E sp \in {servePrefix(l.bucket, l.key, lst)} :
        Finish(g, IF sp.err # NoErr THEN handleUplinkErr(sp.err) ELSE sp.rsp,
               Append(cs, sp.call))
    ELSE IF at[g] = "stat" THEN
        \E stat \in StatOutcomes(l.bucket, l.key) :
        \E cStat \in {Append(cs, Call("StatObject", l.bucket, l.key, stat))} :
        IF stat # NoErr THEN
            Finish(g, Returning(handleUplinkErr(stat), stat), cStat)
        ELSE IF locationOnly THEN
            Finish(g, httpRedirect(r, makeLocation(urlBase, r.Path), 302), cStat)
        ELSE IF "download" \notin r.Query /\ "view" \notin r.Query /\ ~l.rawRequest THEN
            Await(g, "ips", cStat, cache, l)
        ELSE
            Await(g, "content", cStat, cache, l)
    ELSE IF at[g] = "ips" THEN
        \E ips \in IPsOutcomes :
        \E cIPs \in {Append(cs, Call("GetObjectIPs", l.bucket, l.key, ips))} :
        IF ips # NoErr THEN
            Finish(g, Returning(handleUplinkErr(ips), ips), cIPs)
        ELSE
            Finish(g, Written(200, "single-object.html"), cIPs)
    ELSE
        \* at[g] = "content": httpranger.ServeContent has written the object
        Finish(g, [Written(200, "ServeContent") EXCEPT
                       !.attachment = IF "download" \in r.Query
                                      THEN LastSegment(l.key) ELSE <<>>],
               cs)

(***************************************************************************)
(* The TXT record cache (handler.txtRecords).  fetchAccessForHost is not   *)
(* part of handler.go; it follows the design's Custom-Domain Resolver: a   *)
(* live entry is returned as it is; for a missing or expired one a TXT     *)
(* lookup is issued, and what it and the Credential Decoder give is stored *)
(* with the time of the store, replacing the entry of the host.  Lookups   *)
(* racing for a host may all miss and all query; the last store wins.      *)
(***************************************************************************)
TxtRecordTTL == 2
MaxTime == 2

CustomHost == <<"s","i","t","e",".","t","e","s","t">>

\* What one TXT lookup may answer: a failure, or the tagged values found
DNSAnswers ==
    {[err |-> "dns: lookup failed", access |-> <<>>, root |-> <<>>, hasAccess |-> FALSE, hasRoot |-> FALSE],
     [err |-> NoErr, access |-> <<>>, root |-> <<"b","u","c","k","e","t">>, hasAccess |-> FALSE, hasRoot |-> TRUE],
     [err |-> NoErr, access |-> TokGrant, root |-> <<"b","u","c","k","e","t">>, hasAccess |-> TRUE, hasRoot |-> TRUE],
     [err |-> NoErr, access |-> TokGrant2, root |-> <<"b","u","c","k","e","t","/","p">>, hasAccess |-> TRUE, hasRoot |-> TRUE],
     [err |-> NoErr, access |-> TokBad, root |-> <<"b","u","c","k","e","t">>, hasAccess |-> TRUE, hasRoot |-> TRUE]}

recordIsExpired_Strict(rec, t) == t > rec.timestamp + TxtRecordTTL

recordIsExpired(rec, t) == t >= rec.timestamp + TxtRecordTTL

CachedFor(c, host) == {rec \in c : rec.host = host}

\* What the lookup of connection g for host comes to in this step.  Entered
\* (at[g] = "idle"), it reads the cache: a live entry is returned, otherwise
\* the TXT lookup is issued and the goroutine waits.  Resumed (at[g] = "dns"),
\* the answer of the TXT lookup is decoded and stored.
fetchAccessForHost(g, host) ==
    LET live == {rec \in CachedFor(cache, host) : ~recordIsExpired(rec, now)}
        result(waits, access, root, err, c, cs) ==
            [waits |-> waits, access |-> access, root |-> root, err |-> err,
             cache |-> c, calls |-> cs]
        answered(dns) ==
            LET cDNS == <<Call("LookupTXT", host, <<>>, dns.err)>>
                pa == parseAccess(dns.access, NoAuthService)
                fresh == [host |-> host, access |-> pa.access, root |-> dns.root,
                          timestamp |-> now]
                fail(err, cs) == result(FALSE, NilAccess, <<>>, err, cache, cs)
            IN
            IF dns.err # NoErr THEN fail(dns.err, cDNS)
            ELSE IF ~dns.hasAccess \/ ~dns.hasRoot
                 THEN fail("custom domain not configured", cDNS)
            ELSE IF pa.err # NoErr THEN fail(pa.err, cDNS \o pa.calls)
            ELSE result(FALSE, pa.access, dns.root, NoErr,
                        (cache \ CachedFor(cache, host)) \cup {fresh},
                        cDNS \o pa.calls)
    IN
    IF at[g] = "idle" THEN
        IF live # {}
        THEN {result(FALSE, hit.access, hit.root, NoErr, cache, <<>>) : hit \in live}
        ELSE {result(TRUE, NilAccess, <<>>, NoErr, cache, <<>>)}
    ELSE {answered(dns) : dns \in DNSAnswers}

(***************************************************************************)
(* handleHostingService                                                    *)
(***************************************************************************)
IndexHTML == <<"i","n","d","e","x",".","h","t","m","l">>

handleHostingService_IndexOnAnyError(g, r) ==
    \E shp \in {SplitHostPort(r.Host)} :
    \E host \in {IF shp.err = missingPort THEN r.Host ELSE shp.host} :
    \E cs \in {calls[g]} :
    \E l \in {local[g]} :
    IF shp.err # NoErr /\ shp.err # missingPort THEN
        Finish(g, Returning(httpError("unable to handle request", 500), shp.err), <<>>)
    ELSE IF at[g] \in {"idle", "dns"} THEN
        \E f \in fetchAccessForHost(g, host) :
        \E cFetch \in {Append(f.calls, Call("fetchAccessForHost", host, <<f.access, f.root>>, f.err))} :
        IF f.waits THEN
            Await(g, "dns", <<>>, cache, NoLocal)
        ELSE IF f.err # NoErr THEN
            Finish(g, Returning(httpError("unable to handle request", 500), f.err), cFetch)
        ELSE
            Await(g, "open", cFetch, f.cache,
                  [NoLocal EXCEPT !.access = f.access, !.root = f.root])
    ELSE IF at[g] = "open" THEN
        \E open \in OpenOutcomes :
        \E cOpen \in {Append(cs, Call("OpenProject", l.access[1], <<>>, open))} :
        \E bk \in {determineBucketAndObjectKey(l.root, r.Path)} :
        IF open # NoErr THEN
            Finish(g, Returning(handleUplinkErr(open), open), cOpen)
        ELSE
            \* there are no objects with the empty key
            Await(g, IF bk.key # <<>> THEN "stat" ELSE "stat2", cOpen, cache,
                  [l EXCEPT !.bucket = bk.bucket, !.key = bk.key])
    ELSE IF at[g] = "stat" THEN
        \E stat1 \in StatOutcomes(l.bucket, l.key) :
        \E cStat1 \in {Append(cs, Call("StatObject", l.bucket, l.key, stat1))} :
        IF stat1 = NoErr THEN
            Await(g, "content", cStat1, cache, l)
        ELSE IF ~HasSuffix(l.key, Slash) THEN
            Finish(g, Returning(handleUplinkErr(stat1), stat1), cStat1)
        ELSE
            Await(g, "stat2", cStat1, cache, l)
    ELSE IF at[g] = "stat2" THEN
        \E k \in {l.key \o IndexHTML} :
        \E stat2 \in StatOutcomes(l.bucket, k) :
        \E cStat2 \in {Append(cs, Call("StatObject", l.bucket, k, stat2))} :
        IF stat2 = NoErr THEN
            Await(g, "content", cStat2, cache, l)
        ELSE IF stat2 # ErrObjectNotFound THEN
            Finish(g, Returning(handleUplinkErr(stat2), stat2), cStat2)
        ELSE
            Await(g, "list", cStat2, cache, l)
    ELSE IF at[g] = "list" THEN
        \E lst \in ListOutcomes(l.bucket) :
        \E sp \in {servePrefix(l.bucket, l.key, lst)} :
        IF sp.err # NoErr THEN
            Finish(g, Returning(handleUplinkErr(sp.err), sp.err), Append(cs, sp.call))
        ELSE
            Finish(g, sp.rsp, Append(cs, sp.call))
    ELSE
        \* at[g] = "content": httpranger.ServeContent has written the object
        Finish(g, Written(200, "ServeContent"), cs)

handleHostingService(g, r) ==
    \E shp \in {SplitHostPort(r.Host)} :
    \E host \in {IF shp.err = missingPort THEN r.Host ELSE shp.host} :
    \E cs \in {calls[g]} :
    \E l \in {local[g]} :
    IF shp.err # NoErr /\ shp.err # missingPort THEN
        Finish(g, Returning(httpError("unable to handle request", 500), shp.err), <<>>)
    ELSE IF at[g] \in {"idle", "dns"} THEN
        \E f \in fetchAccessForHost(g, host) :
        \E cFetch \in {Append(f.calls, Call("fetchAccessForHost", host, <<f.access, f.root>>, f.err))} :
        IF f.waits THEN
            Await(g, "dns", <<>>, cache, NoLocal)
        ELSE IF f.err # NoErr THEN
            Finish(g, Returning(httpError("unable to handle request", 500), f.err), cFetch)
        ELSE
            Await(g, "open", cFetch, f.cache,
                  [NoLocal EXCEPT !.access = f.access, !.root = f.root])
    ELSE IF at[g] = "open" THEN
        \E open \in OpenOutcomes :
        \E cOpen \in {Append(cs, Call("OpenProject", l.access[1], <<>>, open))} :
        \E bk \in {determineBucketAndObjectKey(l.root, r.Path)} :
        IF open # NoErr THEN
            Finish(g, Returning(handleUplinkErr(open), open), cOpen)
        ELSE
            \* there are no objects with the empty key
            Await(g, IF bk.key # <<>> THEN "stat" ELSE "stat2", cOpen, cache,
                  [l EXCEPT !.bucket = bk.bucket, !.key = bk.key])
    ELSE IF at[g] = "stat" THEN
        \E stat1 \in StatOutcomes(l.bucket, l.key) :
        \E cStat1 \in {Append(cs, Call("StatObject", l.bucket, l.key, stat1))} :
        IF stat1 = NoErr THEN
            Await(g, "content", cStat1, cache, l)
        ELSE IF ~HasSuffix(l.key, Slash) \/ stat1 # ErrObjectNotFound THEN
            Finish(g, Returning(handleUplinkErr(stat1), stat1), cStat1)
        ELSE
            Await(g, "stat2", cStat1, cache, l)
    ELSE IF at[g] = "stat2" THEN
        \E k \in {l.key \o IndexHTML} :
        \E stat2 \in StatOutcomes(l.bucket, k) :
        \E cStat2 \in {Append(cs, Call("StatObject", l.bucket, k, stat2))} :
        IF stat2 = NoErr THEN
            Await(g, "content", cStat2, cache, l)
        ELSE IF stat2 # ErrObjectNotFound THEN
            Finish(g, Returning(handleUplinkErr(stat2), stat2), cStat2)
        ELSE
            Await(g, "list", cStat2, cache, l)
    ELSE IF at[g] = "list" THEN
        \E lst \in ListOutcomes(l.bucket) :
        \E sp \in {servePrefix(l.bucket, l.key, lst)} :
        IF sp.err # NoErr THEN
            Finish(g, Returning(handleUplinkErr(sp.err), sp.err), Append(cs, sp.call))
        ELSE
            Finish(g, sp.rsp, Append(cs, sp.call))
    ELSE
        \* at[g] = "content": httpranger.ServeContent has written the object
        Finish(g, Written(200, "ServeContent"), cs)

(***************************************************************************)
(* serveHTTP                                                               *)
(***************************************************************************)
serveHTTP_AnyMethod(g, r) ==
    \E cmp \in {compareHosts(r.Host, urlBase.Host)} :
    IF cmp.err # NoErr THEN
        \* nothing is written: net/http answers 200 with an empty body
        Finish(g, Returning(Written(200, ""), cmp.err), <<>>)
    ELSE IF ~cmp.equal THEN handleHostingService(g, r)
    ELSE IF r.Method = "HEAD" THEN handleTraditional(g, r, TRUE)
    ELSE handleTraditional(g, r, FALSE)

serveHTTP(g, r) ==
    \E cmp \in {compareHosts(r.Host, urlBase.Host)} :
    IF cmp.err # NoErr THEN
        \* nothing is written: net/http answers 200 with an empty body
        Finish(g, Returning(Written(200, ""), cmp.err), <<>>)
    ELSE IF ~cmp.equal THEN handleHostingService(g, r)
    ELSE IF r.Method = "HEAD" THEN handleTraditional(g, r, TRUE)
    ELSE IF r.Method = "GET" THEN handleTraditional(g, r, FALSE)
    ELSE Finish(g, Returning(httpError("method not allowed", 405), "method not allowed"), <<>>)

(***************************************************************************)
(* The server: every connection is served by its own goroutine; a          *)
(* goroutine that waits on a collaborator leaves the others and the clock  *)
(* running.                                                                *)
(***************************************************************************)
BaseHost == <<"g","w",".","t","e","s","t">>

TraditionalPaths ==
    {<<"/","1","C","3","t","9","N","i","b","/","b","u","c","k","e","t","/","k">>, <<"/","1","C","3","t","9","N","i","b","/","b","u","c","k","e","t","/","d","/">>, <<"/","1","C","3","t","9","N","i","b","/","b","u","c","k","e","t","/","d">>,
     <<"/","1","C","3","t","9","N","i","b","/","b","u","c","k","e","t">>, <<"/","1","C","3","t","9","N","i","b","/","b","u","c","k","e","t","/">>, <<"/","1","C","3","t","9","N","i","b","/","/","k">>, <<"/","1","C","3","t","9","N","i","b","/">>,
     <<"/","1","C","3","t","9","N","i","b">>, <<"/">>, <<"/","B","X","v","D","b","H","/","b","u","c","k","e","t","/","k">>, <<"/","B","X","v","D","b","h","/","b","u","c","k","e","t","/","k">>,
     <<"/","r","a","w","/","1","C","3","t","9","N","i","b","/","b","u","c","k","e","t","/","k">>, <<"/","r","a","w","/","1","C","3","t","9","N","i","b","/","b","u","c","k","e","t">>, <<"/","1","C","3","t","9","N","i","b","/","b","u","c","k","e","t","/","x","/","/","k">>,
     <<"/","1","C","3","t","9","N","i","b","/","n","o","b","u","c","k","e","t","/","k">>}

HostingPaths == {<<"/">>, <<"/","k">>, <<"/","d","/">>, <<"/","x","/">>, <<"/","x">>, <<"/","/">>, <<>>}

Request(m, h, p, q) == [Method |-> m, Host |-> h, Path |-> p, Query |-> q]

Requests ==
    {Request(m, BaseHost, p, {}) : m \in {"GET", "HEAD", "POST"}, p \in TraditionalPaths}
    \cup {Request(m, WithPort(BaseHost, <<"4","4","3">>), <<"/","1","C","3","t","9","N","i","b","/","b","u","c","k","e","t","/","k">>, {}) :
        m \in {"GET", "HEAD", "POST"}}
    \cup {Request("GET", BaseHost, p, q) :
        p \in TraditionalPaths, q \in {{"download"}, {"view"}}}
    \cup {Request("GET", CustomHost, p, {}) : p \in HostingPaths}
    \cup {Request(m, WithPort(CustomHost, <<"8","8","0">>), <<"/","k">>, {}) : m \in {"GET", "POST"}}
    \cup {Request("GET", <<"a",".","b",":","1",":","2">>, <<"/">>, {})}

\* The requests of the second connection: a custom-domain request, which shares
\* the TXT record cache with those of the first, and a traditional one
SecondRequests ==
    {Request("GET", WithPort(CustomHost, <<"8","8","0">>), <<"/","k">>, {}),
     Request("HEAD", BaseHost, <<"/","1","C","3","t","9","N","i","b","/","b","u","c","k","e","t","/","k">>, {})}

RequestsOn(g) == IF g = "c1" THEN Requests ELSE SecondRequests

Init ==
    /\ urlBase = [DefaultBase EXCEPT !.Path = <<"/","s">>]
    /\ now = 0
    /\ cache = EmptyCache
    /\ req = [g \in Conns |-> NoReq]
    /\ resp = [g \in Conns |-> NoResp]
    /\ calls = [g \in Conns |-> <<>>]
    /\ at = [g \in Conns |-> "idle"]
    /\ local = [g \in Conns |-> NoLocal]
    /\ pc = "idle"
    /\ args = <<>>
    /\ ret = NoRet

\* ServeHTTP: a request arrives on connection g and serveHTTP runs until it
\* returns or waits on a collaborator
ServeHTTP(g) ==
    /\ at[g] = "idle"
    /\ \E r \in RequestsOn(g) :
        /\ req' = [req EXCEPT ![g] = r]
        /\ serveHTTP(g, r)
    /\ UNCHANGED <<urlBase, now, pureVars>>

\* The call the goroutine of g waits on returns: serveHTTP goes on from there
\* to the next such call or to its return
Resume(g) ==
    /\ at[g] \notin {"idle", "done"}
    /\ serveHTTP(g, req[g])
    /\ UNCHANGED <<urlBase, now, req, pureVars>>

\* ServeHTTP returns: the error of serveHTTP is dropped, the exchange is over
Return(g) ==
    /\ at[g] = "done"
    /\ req' = [req EXCEPT ![g] = NoReq]
    /\ resp' = [resp EXCEPT ![g] = NoResp]
    /\ calls' = [calls EXCEPT ![g] = <<>>]
    /\ at' = [at EXCEPT ![g] = "idle"]
    /\ UNCHANGED <<urlBase, now, cache, local, pureVars>>

Tick ==
    /\ now < MaxTime
    /\ now' = now + 1
    /\ UNCHANGED <<urlBase, cache, req, resp, calls, at, local, pureVars>>

Next ==
    \/ \E g \in Conns : ServeHTTP(g)
    \/ \E g \in Conns : Resume(g)
    \/ \E g \in Conns : Return(g)
    \/ Tick

Spec == Init /\ [][Next]_vars

(***************************************************************************)
(* Properties                                                              *)
(***************************************************************************)
StorageOps == {"StatObject", "ListObjects"}

\* The request on connection g is one for the gateway's own host / another host
OnBaseHost(g) ==
    req[g] # NoReq /\ compareHosts(req[g].Host, urlBase.Host) = [equal |-> TRUE, err |-> NoErr]
OnCustomHost(g) ==
    req[g] # NoReq /\ compareHosts(req[g].Host, urlBase.Host) = [equal |-> FALSE, err |-> NoErr]

\* C1: parseAccess returns a grant only for a token that check-decodes and has
\* version 0, or version 1 with a successful resolution flagged public; every
\* other case returns an error and no grant: any other version fails as an
\* invalid version, a non-public resolution fails, and the resolver is called
\* only for version 1.
C1_GrantOnlyForGrantOrPublicKeyID ==
    pc = "done" =>
        LET dec == CheckDecode(args.access)
            cfg == args.cfg
            resolved == \E i \in DOMAIN ret.calls : ret.calls[i].op = "Resolve"
        IN
        /\ ret.access # NilAccess =>
              /\ dec.err = NoErr
              /\ \/ dec.version = 0
                 \/ dec.version = 1 /\ cfg.err = NoErr /\ cfg.Public
        /\ ret.access = NilAccess <=> ret.err # NoErr
        /\ dec.err = NoErr /\ dec.version \notin {0, 1} =>
              ret.access = NilAccess /\ ret.err = "invalid access version"
        /\ dec.err = NoErr /\ dec.version = 1 /\ cfg.err = NoErr /\ ~cfg.Public =>
              ret.access = NilAccess /\ ret.err = "non-public access key id"
        /\ resolved => dec.err = NoErr /\ dec.version = 1

C1_Witness ==
    /\ pc = "done"
    /\ args.access = TokKeyID
    /\ args.cfg.err = NoErr /\ args.cfg.Public
    /\ ret.access = <<args.cfg.AccessGrant>>

\* A credential token: one the Credential Decoder turns into a grant
Accepted(A, cfg) == parseAccess(A, cfg).err = NoErr

\* C2: for a credential token A, a non-empty bucket B and a non-empty key K,
\* "/A/B/K" parses to (rawRequest FALSE, A, B, K) and "/raw/A/B/K" to
\* (rawRequest TRUE, A, B, K), the key in full with its slashes.
C2_PlainAndRawPathsParseAlike ==
    pc = "done" =>
        \A A \in PathTokens, B \in PathBuckets, K \in PathKeys :
            Accepted(A, args.cfg) =>
                /\ args.p = PlainPath(A, B, K) =>
                      /\ ret.err = NoErr /\ ~ret.rawRequest
                      /\ ret.serializedAccess = A /\ ret.bucket = B /\ ret.key = K
                /\ args.p = RawPath(A, B, K) =>
                      /\ ret.err = NoErr /\ ret.rawRequest
                      /\ ret.serializedAccess = A /\ ret.bucket = B /\ ret.key = K

C2_Witness ==
    /\ pc = "done"
    /\ args.p = PlainPath(TokGrant, <<"b","u","c","k","e","t">>, <<"a","/","b","/","c">>)
    /\ ret.key = <<"a","/","b","/","c">>
    /\ ret.access = <<TokGrant>>

\* C3: compareHosts ignores ports: for a DNS name, an IPv4 address or a
\* bracketed IPv6 literal h, with or without a port on either side, the result
\* is true without error; for different bare hosts it is false.
PortForms(h) == {h} \cup {WithPort(h, p) : p \in Ports}

C3_PortsNeverCompared ==
    pc = "done" =>
        \A h1 \in BareHosts, h2 \in BareHosts :
            args.url1 \in PortForms(h1) /\ args.url2 \in PortForms(h2) =>
                /\ ret.err = NoErr
                /\ ret.equal <=> h1 = h2

\* The rows of TestDetermineBucketAndObjectKey
MapperTests ==
    {<<<<"b","u","c","k","e","t","/","p","r","e","f","i","x","/">>, <<"/","i","m","a","g","e","s","/","p","i","c",".","j","p","g">>, <<"b","u","c","k","e","t">>, <<"p","r","e","f","i","x","/","i","m","a","g","e","s","/","p","i","c",".","j","p","g">>>>,
     <<<<"b","u","c","k","e","t">>, <<"/","i","m","a","g","e","s","/","p","i","c",".","j","p","g">>, <<"b","u","c","k","e","t">>, <<"i","m","a","g","e","s","/","p","i","c",".","j","p","g">>>>,
     <<<<"b","u","c","k","e","t","/">>, <<"/","i","m","a","g","e","s","/","p","i","c",".","j","p","g">>, <<"b","u","c","k","e","t">>, <<"i","m","a","g","e","s","/","p","i","c",".","j","p","g">>>>,
     <<<<"b","u","c","k","e","t","/","/">>, <<"/","i","m","a","g","e","s","/","p","i","c",".","j","p","g">>, <<"b","u","c","k","e","t">>, <<"/","i","m","a","g","e","s","/","p","i","c",".","j","p","g">>>>,
     <<<<"b","u","c","k","e","t","/","/","p","r","e","f","i","x">>, <<"/","i","m","a","g","e","s","/","p","i","c",".","j","p","g">>, <<"b","u","c","k","e","t">>, <<"/","p","r","e","f","i","x","/","i","m","a","g","e","s","/","p","i","c",".","j","p","g">>>>,
     <<<<"b","u","c","k","e","t","/","p","r","e","f","i","x","/","/">>, <<"/","i","m","a","g","e","s","/","p","i","c",".","j","p","g">>, <<"b","u","c","k","e","t">>, <<"p","r","e","f","i","x","/","/","i","m","a","g","e","s","/","p","i","c",".","j","p","g">>>>,
     <<<<"b","u","c","k","e","t","/","p","r","e","f","i","x">>, <<"/","i","m","a","g","e","s","/","p","i","c",".","j","p","g">>, <<"b","u","c","k","e","t">>, <<"p","r","e","f","i","x","/","i","m","a","g","e","s","/","p","i","c",".","j","p","g">>>>,
     <<<<"b","u","c","k","e","t","/","p","r","e","f","i","x","/">>, <<"/","/","i","m","a","g","e","s","/","p","i","c",".","j","p","g">>, <<"b","u","c","k","e","t">>, <<"p","r","e","f","i","x","/","/","i","m","a","g","e","s","/","p","i","c",".","j","p","g">>>>}

\* C4: the bucket is the part of root before its first '/'; the key is the rest
\* of root, closed by one '/' iff it is non-empty and does not end in one,
\* followed by the URL path less one leading '/'.
C4_BucketAndKeyFromRootAndPath ==
    pc = "done" =>
        LET root == args.root
            urlPath == args.urlPath
            bucket == ret.bucket
            rest == IF root = bucket THEN <<>>
                    ELSE [i \in 1..(Len(root) - Len(bucket) - 1) |-> root[Len(bucket) + 1 + i]]
            prefix == IF rest # <<>> /\ rest[Len(rest)] # "/" THEN Append(rest, "/") ELSE rest
            suffix == IF urlPath # <<>> /\ urlPath[1] = "/" THEN Tail(urlPath) ELSE urlPath
        IN
        /\ \A i \in 1..Len(bucket) : bucket[i] # "/"
        /\ root = bucket \/ HasPrefix(root, Append(bucket, "/"))
        /\ ret.key = prefix \o suffix
        /\ \A t \in MapperTests :
              root = t[1] /\ urlPath = t[2] => bucket = t[3] /\ ret.key = t[4]

C4_Witness ==
    /\ pc = "done"
    /\ args.root = <<"b","u","c","k","e","t","/","/","p","r","e","f","i","x">>
    /\ args.urlPath = <<"/","i","m","a","g","e","s","/","p","i","c",".","j","p","g">>
    /\ ret = [bucket |-> <<"b","u","c","k","e","t">>, key |-> <<"/","p","r","e","f","i","x","/","i","m","a","g","e","s","/","p","i","c",".","j","p","g">>]

\* C5: whenever a request reaches a storage operation (a stat or a listing),
\* the bucket passed to it is not empty.
C5_StorageBucketNeverEmpty ==
    \A g \in Conns : \A i \in DOMAIN calls[g] :
        calls[g][i].op \in StorageOps => calls[g][i].a # <<>>

\* C6: on the base host a method other than GET and HEAD is answered 405 before
\* the path is parsed: no decoding, no resolver call, no storage operation.
C6_OtherMethodsRejectedFirst ==
    \A g \in Conns :
        OnBaseHost(g) /\ req[g].Method \notin {"GET", "HEAD"} =>
            /\ at[g] = "done"
            /\ resp[g].status = 405
            /\ resp[g].err # NoErr
            /\ calls[g] = <<>>

C6_Witness ==
    \E g \in Conns :
        /\ req[g].Method = "POST"
        /\ req[g].Host = WithPort(BaseHost, <<"4","4","3">>)
        /\ req[g].Path = <<"/","1","C","3","t","9","N","i","b","/","b","u","c","k","e","t","/","k">>
        /\ resp[g].status = 405

\* The request served on g names, with a credential the decoder accepted, an
\* object that exists, and no collaborator failed for a reason of its own
NamesExistingObject(g) ==
    /\ at[g] = "done"
    /\ \E A \in {TokGrant, TokKeyID}, o \in Objects :
          req[g].Path \in {PlainPath(A, o[1], o[2]), RawPath(A, o[1], o[2])}
    /\ \E i \in DOMAIN calls[g] : calls[g][i].op = "ParseAccess" /\ calls[g][i].out = NoErr
    /\ \A i \in DOMAIN calls[g] : calls[g][i].out # ErrInternal

\* The answer is a 302 to the base URL followed by the request path, no body
RedirectedToCanonicalURL(g) ==
    /\ resp[g].status = 302
    /\ resp[g].location =
          urlBase.Scheme \o <<":", "/", "/">> \o urlBase.Host \o urlBase.Path \o req[g].Path
    /\ resp[g].body = ""

\* C7: a HEAD request on the base host that names an existing object with a
\* valid credential always ends with a 302 redirect to the canonical object
\* URL, the base URL joined with the request path, and never with a body: no
\* object content, single-object page or prefix listing.
C7_HeadAlwaysRedirected ==
    \A g \in Conns :
        OnBaseHost(g) /\ req[g].Method = "HEAD" /\ NamesExistingObject(g)
            => RedirectedToCanonicalURL(g)

\* C8: "/raw/A/B", the key left out, parses as a raw request for credential A,
\* bucket B and the empty key, as "/A/B" does in non-raw mode.
C8_RawPathKeyOptional ==
    pc = "done" =>
        \A A \in PathTokens, B \in PathBuckets :
            Accepted(A, args.cfg) =>
                /\ args.p = NoKeyPath(A, B) =>
                      /\ ret.err = NoErr /\ ~ret.rawRequest
                      /\ ret.serializedAccess = A /\ ret.bucket = B /\ ret.key = <<>>
                /\ args.p = RawNoKeyPath(A, B) =>
                      /\ ret.err = NoErr /\ ret.rawRequest
                      /\ ret.serializedAccess = A /\ ret.bucket = B /\ ret.key = <<>>

\* The host a custom-domain request is looked up under
HostOf(r) ==
    LET shp == SplitHostPort(r.Host) IN IF shp.err = missingPort THEN r.Host ELSE shp.host

\* The entries a lookup for host at time t may return: those fetched less than
\* TTL ago
LiveFor(c, t, host) == {e \in CachedFor(c, host) : t < e.timestamp + TxtRecordTTL}

AskedDNS(cs) == \E i \in DOMAIN cs : cs[i].op = "LookupTXT"

\* C9 as stated: once an entry for a host is fetched at time T, a lookup for
\* the host at any time before T+TTL returns that entry, the same access grant
\* and storage root: until T+TTL the cache holds them for the host.
C9_EntryReturnedUntilTTL ==
    [][\A e \in cache :
          now' < e.timestamp + TxtRecordTTL =>
              \E e2 \in LiveFor(cache', now', e.host) :
                  e2.access = e.access /\ e2.root = e.root
      ]_vars

\* C9, amended: a lookup for a host returns the entry the cache holds for it
\* when that entry was fetched less than TTL ago, and asks no DNS; otherwise
\* it issues a TXT lookup and, when the answer decodes, stores the answer with
\* the time of the store in place of the host's entry before returning it;
\* an expired entry is never returned.  The entry held is the one stored
\* last, which a lookup that missed earlier may store before T+TTL.
C9_LookupReturnsLiveEntryOrRefetches ==
    [][\A g \in Conns :
          LET r == req'[g]
              h == HostOf(r)
              live == LiveFor(cache, now, h)
              returned == <<local'[g].access, local'[g].root>>
              fetches == {i \in DOMAIN calls'[g] : calls'[g][i].op = "fetchAccessForHost"}
          IN
          /\ at[g] = "idle" /\ at'[g] \in {"dns", "open"} /\ OnCustomHost(g)' =>
                /\ cache' = cache
                /\ IF live # {}
                   THEN /\ at'[g] = "open"
                        /\ ~AskedDNS(calls'[g])
                        /\ \E e \in live : returned = <<e.access, e.root>>
                   ELSE at'[g] = "dns" /\ calls'[g] = <<>>
          /\ at[g] = "dns" /\ at'[g] # "dns" =>
                /\ AskedDNS(calls'[g])
                /\ \A i \in fetches : calls'[g][i].a = h
                /\ IF at'[g] = "open"
                   THEN /\ CachedFor(cache', h) =
                              {[host |-> h, access |-> returned[1], root |-> returned[2],
                                timestamp |-> now]}
                        /\ LiveFor(cache', now, h) # {}
                   ELSE /\ cache' = cache
                        /\ resp'[g].status = 500
          /\ \A host \in {e.host : e \in cache'} : Cardinality(CachedFor(cache', host)) = 1
      ]_vars

\* A lookup is answered from the cache with an entry fetched earlier
C9_Witness ==
    \E g \in Conns :
        /\ at[g] = "open"
        /\ OnCustomHost(g)
        /\ ~AskedDNS(calls[g])
        /\ \E e \in cache :
              /\ e.host = HostOf(req[g]) /\ e.timestamp < now
              /\ local[g].access = e.access /\ local[g].root = e.root

\* The storage probes of the request on g, in order
Probes(g) == SelectSeq(calls[g], LAMBDA c : c.op \in StorageOps)

\* C10: on a custom domain the mapped key is statted first iff it is not empty;
\* key+"index.html" is statted only if the key is empty, or ends in '/' and
\* the first stat reported object-not-found; the listing runs only after the
\* index.html stat reported object-not-found; a stat that succeeds serves the
\* object and is the last probe; a stat that fails otherwise is the last probe
\* and the request ends with that failure; no probe is repeated.
C10_ProbeOrder ==
    \A g \in Conns :
    /\ at[g] = "done"
    /\ OnCustomHost(g)
    /\ \E i \in DOMAIN calls[g] : calls[g][i].op = "OpenProject" /\ calls[g][i].out = NoErr
    =>
        LET fetched == calls[g][CHOOSE i \in DOMAIN calls[g] :
                                    calls[g][i].op = "fetchAccessForHost"]
            key == determineBucketAndObjectKey(fetched.b[2], req[g].Path).key
            index == key \o IndexHTML
            P == Probes(g)
            n == Len(P)
            isStat(i, k) == P[i].op = "StatObject" /\ P[i].b = k
        IN
        /\ n >= 1
        /\ \A i, j \in 1..n : i # j => <<P[i].op, P[i].a, P[i].b>> # <<P[j].op, P[j].a, P[j].b>>
        /\ \A i \in 1..n : P[i].op = "StatObject" => P[i].b \in {key, index}
        /\ key # <<>> <=> isStat(1, key)
        /\ \A i \in 1..n : isStat(i, key) => i = 1
        /\ \A i \in 1..n : isStat(i, index) =>
              \/ key = <<>> /\ i = 1
              \/ HasSuffix(key, Slash) /\ i = 2 /\ P[1].out = ErrObjectNotFound
        /\ \A i \in 1..n : P[i].op = "ListObjects" =>
              i > 1 /\ i = n /\ isStat(i - 1, index) /\ P[i - 1].out = ErrObjectNotFound
        /\ \A i \in 1..n : P[i].op = "StatObject" /\ P[i].out = NoErr =>
              i = n /\ resp[g].status = 200 /\ resp[g].body = "ServeContent"
        /\ \A i \in 1..n :
              /\ P[i].op = "StatObject"
              /\ P[i].out # NoErr
              /\ ~(P[i].out = ErrObjectNotFound /\ (isStat(i, index) \/ HasSuffix(key, Slash)))
              => i = n /\ resp[g] = Returning(handleUplinkErr(P[i].out), P[i].out)

C10_Witness ==
    \E g \in Conns :
        /\ OnCustomHost(g)
        /\ Len(Probes(g)) = 3
        /\ Probes(g)[1].out = ErrObjectNotFound
        /\ Probes(g)[2].out = ErrObjectNotFound
        /\ Probes(g)[3].op = "ListObjects"
        /\ resp[g].body = "prefix-listing.html"

====
